---- MODULE Spec2Model ----
(***************************************************************************)
(* Model of remap.py: ChromosomeRemapper loads a tab-separated mapping     *)
(* file into mapping_dict, then rewrites the SN tag of the @SQ lines read  *)
(* from standard input and prints every line to standard output.           *)
(*                                                                         *)
(* A Python str is a sequence of one-character strings.                    *)
(*                                                                         *)
(*   Spec      the whole program (main): open, load, process, exit         *)
(*   SpecLoad  load_chromosome_mappings over all short mapping-file lines  *)
(*   SpecLine  remap_chromosome_in_line over header lines built from       *)
(*             segments, with a table and then with its inverse            *)
(***************************************************************************)
EXTENDS Integers, Sequences, FiniteSets

VARIABLES
    pc,             \* where the program is
    mapping_file,   \* [status, lines]: the file named on the command line
    file_pos,       \* lines of the mapping file read so far
    file_open,      \* the mapping file's handle is open
    mapping_dict,   \* self.mapping_dict (the local `mapping` while loading)
    stdin,          \* the raw lines standard input yields
    in_pos,         \* lines of standard input consumed so far
    stdout,         \* the lines written to standard output
    stderr,         \* the diagnostics written to standard error
    exit_code,      \* the process's exit status, once pc = "exit"
    header_line,    \* SpecLine: the line given to remap_chromosome_in_line
    remapped_line,  \* SpecLine: its result
    restored_line   \* SpecLine: the result remapped again with the inverse table

vars == << pc, mapping_file, file_pos, file_open, mapping_dict, stdin, in_pos,
           stdout, stderr, exit_code, header_line, remapped_line, restored_line >>

-----------------------------------------------------------------------------
(* Bounds *)

MaxFileLines == 2
MaxInput == 2
MaxLineLen == 4
MaxSegs == 4

-----------------------------------------------------------------------------
(* Characters *)

TAB == "\t"
SP == " "
NL == "\n"

\* The characters of the model that str.strip() removes and \S rejects.
Whitespace == {SP, TAB, NL}

\* The characters of the model that \w accepts.
WordChars == {"S", "N", "Q", "H", "D", "X", "a", "b"}

SN == <<"S", "N", ":">>
SQ == <<"@", "S", "Q">>
HD == <<"@", "H", "D">>

-----------------------------------------------------------------------------
(* str methods *)

RECURSIVE lstrip(_)
lstrip(s) ==
    IF s # <<>> /\ s[1] \in Whitespace THEN lstrip(Tail(s)) ELSE s

RECURSIVE rstrip(_)
rstrip(s) ==
    IF s # <<>> /\ s[Len(s)] \in Whitespace
    THEN rstrip(SubSeq(s, 1, Len(s) - 1))
    ELSE s

strip(s) == rstrip(lstrip(s))

\* str.rstrip('\n')
RECURSIVE rstrip_newline(_)
rstrip_newline(s) ==
    IF s # <<>> /\ s[Len(s)] = NL
    THEN rstrip_newline(SubSeq(s, 1, Len(s) - 1))
    ELSE s

\* str.split("\t"): never empty, "" splits to [""]
RECURSIVE split_tab(_)
split_tab(s) ==
    IF \E i \in 1..Len(s) : s[i] = TAB
    THEN LET i == CHOOSE k \in 1..Len(s) :
                    s[k] = TAB /\ \A j \in 1..(k - 1) : s[j] # TAB
         IN  <<SubSeq(s, 1, i - 1)>> \o split_tab(SubSeq(s, i + 1, Len(s)))
    ELSE <<s>>

startswith_first_char(s, prefix) ==
    s # <<>> /\ s[1] = prefix[1]

startswith(s, prefix) ==
    Len(s) >= Len(prefix) /\ SubSeq(s, 1, Len(prefix)) = prefix

-----------------------------------------------------------------------------
(* dict *)

EmptyDict == <<>>

dict_set(d, k, v) ==
    [x \in (DOMAIN d) \cup {k} |-> IF x = k THEN v ELSE d[x]]

dict_get(d, k, default) ==
    IF k \in DOMAIN d THEN d[k] ELSE default

-----------------------------------------------------------------------------
(* load_chromosome_mappings: the body of the loop, for one line of the file *)

load_line(mapping, line) ==
    LET parts == split_tab(strip(line)) IN
    IF Len(parts) = 0 \/ Len(strip(parts[1])) = 0
    THEN mapping
    ELSE LET original == parts[1]
             remapped == IF Len(parts) > 1 /\ strip(parts[2]) # <<>>
                         THEN parts[2]
                         ELSE original
         IN  dict_set(mapping, original, remapped)

-----------------------------------------------------------------------------
(* SN_TAG_PATTERN = \bSN:(\S+) and its substitution *)

\* \b at the gap before s[i]
word_boundary(s, i) ==
    LET before == i > 1 /\ s[i - 1] \in WordChars
        after  == i <= Len(s) /\ s[i] \in WordChars
    IN  before # after

\* The end of the run of non-whitespace characters that holds s[k] (greedy \S+).
RECURSIVE run_end(_, _)
run_end(s, k) ==
    IF k < Len(s) /\ s[k + 1] \notin Whitespace THEN run_end(s, k + 1) ELSE k

\* The index of the last character of the pattern's match at i, 0 if none.
SN_TAG_PATTERN(s, i) ==
    IF /\ i + 3 <= Len(s)
       /\ word_boundary(s, i)
       /\ SubSeq(s, i, i + 2) = SN
       /\ s[i + 3] \notin Whitespace
    THEN run_end(s, i + 3)
    ELSE 0

replace_sn_no_prefix(d, original_chrom) ==
    dict_get(d, original_chrom, original_chrom)

replace_sn(d, original_chrom) ==
    SN \o dict_get(d, original_chrom, original_chrom)

\* SN_TAG_PATTERN.sub(self.replace_sn, s), from index i on: every
\* non-overlapping match, leftmost first, is replaced.
RECURSIVE sub(_, _, _)
sub(d, s, i) ==
    IF i > Len(s) THEN <<>>
    ELSE LET e == SN_TAG_PATTERN(s, i) IN
         IF e = 0
         THEN <<s[i]>> \o sub(d, s, i + 1)
         ELSE replace_sn(d, SubSeq(s, i + 3, e)) \o sub(d, s, e + 1)

remap_chromosome_in_line(d, line) ==
    IF startswith(line, SQ) THEN sub(d, line, 1) ELSE line

-----------------------------------------------------------------------------
(* print *)

print_first(stream, s) == <<s \o <<NL>>>> \o stream

print(stream, s) == Append(stream, s \o <<NL>>)

-----------------------------------------------------------------------------
(* Inputs *)

SeqsUpTo(S, n) == UNION {[1..k -> S] : k \in 0..n}

FileStatus == {"ok", "missing", "unreadable", "read_error", "bad_encoding"}

\* Mapping-file lines and header lines of the whole-program specification.
MainMapLines == { <<"a", TAB, "b">>, <<"b">>, <<>> }
MainInputLines == { SQ \o <<TAB>> \o SN \o <<"a">>, HD, <<>> }

\* Iterating a text stream yields each line with its "\n"; only the last line
\* of the stream may lack one.
RawLines(contents, terminated) ==
    [i \in 1..Len(contents) |->
        IF i = Len(contents) /\ ~terminated
        THEN contents[i]
        ELSE contents[i] \o <<NL>>]

MainInputs ==
    {RawLines(c, TRUE) : c \in SeqsUpTo(MainInputLines, MaxInput)}
    \cup {RawLines(c, FALSE) :
            c \in {x \in SeqsUpTo(MainInputLines, MaxInput) :
                     x # <<>> /\ x[Len(x)] # <<>>}}

-----------------------------------------------------------------------------
(* main: ChromosomeRemapper(args.mapping_file), then process_genomic_data() *)

Init ==
    /\ pc = "start"
    /\ mapping_file \in [status : FileStatus,
                         lines : SeqsUpTo(MainMapLines, MaxFileLines)]
    /\ file_pos = 0
    /\ file_open = FALSE
    /\ mapping_dict = EmptyDict
    /\ stdin \in MainInputs
    /\ in_pos = 0
    /\ stdout = <<>>
    /\ stderr = <<>>
    /\ exit_code = 0
    /\ header_line = <<>>
    /\ remapped_line = <<>>
    /\ restored_line = <<>>

\* open(self.mapping_file, "r") succeeds
OpenFile ==
    /\ pc = "start"
    /\ mapping_file.status \in {"ok", "read_error", "bad_encoding"}
    /\ pc' = "load"
    /\ file_open' = TRUE
    /\ UNCHANGED << mapping_file, file_pos, mapping_dict, stdin, in_pos, stdout,
                    stderr, exit_code, header_line, remapped_line, restored_line >>

\* The handler with sys.exit(1) left out: the loader returns what it has.
ReturnOnError(message) ==
    /\ stderr' = Append(stderr, message)
    /\ file_open' = FALSE
    /\ pc' = "process"
    /\ UNCHANGED << mapping_file, file_pos, mapping_dict, stdin, in_pos, stdout,
                    exit_code, header_line, remapped_line, restored_line >>

\* The handler's print to stderr followed by sys.exit(1); the with block has
\* closed the file.
ExitOnError(message) ==
    /\ stderr' = Append(stderr, message)
    /\ exit_code' = 1
    /\ file_open' = FALSE
    /\ pc' = "exit"
    /\ UNCHANGED << mapping_file, file_pos, mapping_dict, stdin, in_pos, stdout,
                    header_line, remapped_line, restored_line >>

\* open raises FileNotFoundError
OpenNotFound ==
    /\ pc = "start"
    /\ mapping_file.status = "missing"
    /\ ExitOnError("Error: File not found.")

\* open raises another OSError (permission denied, a directory, ...)
OpenOSError ==
    /\ pc = "start"
    /\ mapping_file.status = "unreadable"
    /\ ExitOnError("Error reading file")

\* One iteration of the loop over the file.
LoadLine ==
    /\ pc = "load"
    /\ file_pos < Len(mapping_file.lines)
    /\ mapping_dict' =
           load_line(mapping_dict, mapping_file.lines[file_pos + 1] \o <<NL>>)
    /\ file_pos' = file_pos + 1
    /\ UNCHANGED << pc, mapping_file, file_open, stdin, in_pos, stdout, stderr,
                    exit_code, header_line, remapped_line, restored_line >>

\* Reading raises OSError, at any point of the file.
ReadOSError ==
    /\ pc = "load"
    /\ mapping_file.status = "read_error"
    /\ ExitOnError("Error reading file")

\* Reading raises another exception (UnicodeDecodeError), at any point.
ReadUnexpectedError ==
    /\ pc = "load"
    /\ mapping_file.status = "bad_encoding"
    /\ ExitOnError("Unexpected error while loading mappings")

\* The file is exhausted: the with block closes it and the mapping is returned.
LoadDone ==
    /\ pc = "load"
    /\ mapping_file.status = "ok"
    /\ file_pos = Len(mapping_file.lines)
    /\ file_open' = FALSE
    /\ pc' = "process"
    /\ UNCHANGED << mapping_file, file_pos, mapping_dict, stdin, in_pos, stdout,
                    stderr, exit_code, header_line, remapped_line, restored_line >>

\* One iteration of process_genomic_data's loop over sys.stdin.
ProcessLine ==
    /\ pc = "process"
    /\ in_pos < Len(stdin)
    /\ LET line == rstrip_newline(stdin[in_pos + 1]) IN
       stdout' = print(stdout, remap_chromosome_in_line(mapping_dict, line))
    /\ in_pos' = in_pos + 1
    /\ UNCHANGED << pc, mapping_file, file_pos, file_open, mapping_dict, stdin,
                    stderr, exit_code, header_line, remapped_line, restored_line >>

\* Standard input is exhausted: main returns.
Finish ==
    /\ pc = "process"
    /\ in_pos = Len(stdin)
    /\ pc' = "exit"
    /\ exit_code' = 0
    /\ UNCHANGED << mapping_file, file_pos, file_open, mapping_dict, stdin, in_pos,
                    stdout, stderr, header_line, remapped_line, restored_line >>

Next ==
    \/ OpenFile
    \/ OpenNotFound
    \/ OpenOSError
    \/ LoadLine
    \/ ReadOSError
    \/ ReadUnexpectedError
    \/ LoadDone
    \/ ProcessLine
    \/ Finish

Spec == Init /\ [][Next]_vars

-----------------------------------------------------------------------------
(* SpecLoad: load_chromosome_mappings over every mapping file of at most     *)
(* MaxFileLines lines of at most MaxLineLen characters                       *)

MapChars == {TAB, SP, "a", "b"}

AllMapLines == SeqsUpTo(MapChars, MaxLineLen)

InitLoad ==
    /\ pc = "start"
    /\ mapping_file \in [status : {"ok"},
                         lines : SeqsUpTo(AllMapLines, MaxFileLines)]
    /\ file_pos = 0
    /\ file_open = FALSE
    /\ mapping_dict = EmptyDict
    /\ stdin = <<>>
    /\ in_pos = 0
    /\ stdout = <<>>
    /\ stderr = <<>>
    /\ exit_code = 0
    /\ header_line = <<>>
    /\ remapped_line = <<>>
    /\ restored_line = <<>>

NextLoad ==
    \/ OpenFile
    \/ LoadLine
    \/ LoadDone

SpecLoad == InitLoad /\ [][NextLoad]_vars

-----------------------------------------------------------------------------
(* SpecLine: remap_chromosome_in_line over header lines and tables           *)

\* A header line is a prefix followed by at most MaxSegs segments: SN fields,
\* an SN field with no name, the tag of another field, and text that glues
\* onto the field before it.
Segments ==
    { <<TAB>> \o SN \o <<"a">>,
      <<TAB>> \o SN \o <<"b">>,
      <<TAB>> \o SN,
      <<TAB, "D", "S", ":">>,
      SN \o <<"a">>,
      <<"X">> }

Prefixes == { <<>>, SQ, HD }

RECURSIVE Concat(_)
Concat(ss) == IF ss = <<>> THEN <<>> ELSE Head(ss) \o Concat(Tail(ss))

HeaderLines ==
    {p \o Concat(ss) : p \in Prefixes, ss \in SeqsUpTo(Segments, MaxSegs)}

\* Tables the loader can produce: "a\tb X" loads the value "b X".
TableKeys == { <<"a">>, <<"b">> }
TableValues == { <<"a">>, <<"b">>, <<"b", SP, "X">> }
Tables == UNION {[K -> TableValues] : K \in SUBSET TableKeys}

Range(d) == {d[k] : k \in DOMAIN d}

Injective(d) == \A j, k \in DOMAIN d : d[j] = d[k] => j = k

Inverse(d) == [v \in Range(d) |-> CHOOSE k \in DOMAIN d : d[k] = v]

InitLine ==
    /\ pc = "line"
    /\ mapping_file = [status |-> "ok", lines |-> <<>>]
    /\ file_pos = 0
    /\ file_open = FALSE
    /\ mapping_dict \in Tables
    /\ stdin = <<>>
    /\ in_pos = 0
    /\ stdout = <<>>
    /\ stderr = <<>>
    /\ exit_code = 0
    /\ header_line \in HeaderLines
    /\ remapped_line = <<>>
    /\ restored_line = <<>>

RemapLine ==
    /\ pc = "line"
    /\ remapped_line' = remap_chromosome_in_line(mapping_dict, header_line)
    /\ pc' = "remapped"
    /\ UNCHANGED << mapping_file, file_pos, file_open, mapping_dict, stdin, in_pos,
                    stdout, stderr, exit_code, header_line, restored_line >>

\* A second run of the transformer, on the first run's output, with the
\* inverse table.
RemapInverse ==
    /\ pc = "remapped"
    /\ Injective(mapping_dict)
    /\ restored_line' =
           remap_chromosome_in_line(Inverse(mapping_dict), remapped_line)
    /\ pc' = "restored"
    /\ UNCHANGED << mapping_file, file_pos, file_open, mapping_dict, stdin, in_pos,
                    stdout, stderr, exit_code, header_line, remapped_line >>

NextLine ==
    \/ RemapLine
    \/ RemapInverse

SpecLine == InitLine /\ [][NextLine]_vars

-----------------------------------------------------------------------------
(* What the properties speak of: whitespace-delimited fields and SN fields   *)

HasSQPrefix(line) ==
    Len(line) >= 3 /\ line[1] = "@" /\ line[2] = "S" /\ line[3] = "Q"

NoWhitespace(s) == \A i \in 1..Len(s) : s[i] \notin Whitespace

AllWhitespace(s) == \A i \in 1..Len(s) : s[i] \in Whitespace

IsTrimmed(s) ==
    s # <<>> /\ s[1] \notin Whitespace /\ s[Len(s)] \notin Whitespace

\* The text of a mapping-file line before its first tab.
FirstField(line) ==
    IF \E i \in 1..Len(line) : line[i] = TAB
    THEN LET i == CHOOSE k \in 1..Len(line) :
                    line[k] = TAB /\ \A j \in 1..(k - 1) : line[j] # TAB
         IN  SubSeq(line, 1, i - 1)
    ELSE line

\* The text between the first and the second tab; <<>> when there is no tab.
SecondField(line) ==
    IF \E i \in 1..Len(line) : line[i] = TAB
    THEN FirstField(SubSeq(line, Len(FirstField(line)) + 2, Len(line)))
    ELSE <<>>

FieldStart(line, i) == i = 1 \/ line[i - 1] \in Whitespace

FieldEnd(line, i) ==
    CHOOSE e \in i..Len(line) :
        /\ \A k \in i..e : line[k] \notin Whitespace
        /\ e = Len(line) \/ line[e + 1] \in Whitespace

\* A whitespace-delimited field SN:<name> with a name starts at i.
SNFieldAt(line, i) ==
    /\ i + 3 <= Len(line)
    /\ FieldStart(line, i)
    /\ line[i] = "S" /\ line[i + 1] = "N" /\ line[i + 2] = ":"
    /\ line[i + 3] \notin Whitespace

SNFields(line) == {i \in 1..Len(line) : SNFieldAt(line, i)}

SNFieldName(line, i) == SubSeq(line, i + 3, FieldEnd(line, i))

\* The name of the line's first SN field, <<>> when it has none.
SNValue(line) ==
    IF SNFields(line) = {} THEN <<>>
    ELSE SNFieldName(line, CHOOSE i \in SNFields(line) :
                               \A j \in SNFields(line) : i <= j)

\* line[i..] with every SN field whose name is a key of d replaced by
\* SN:<d[name]>, and nothing else changed.
RECURSIVE WithSNFieldsMapped(_, _, _)
WithSNFieldsMapped(d, line, i) ==
    LET later == {k \in SNFields(line) : k >= i} IN
    IF later = {}
    THEN SubSeq(line, i, Len(line))
    ELSE LET f == CHOOSE k \in later : \A m \in later : k <= m
             e == FieldEnd(line, f)
             name == SubSeq(line, f + 3, e)
         IN  SubSeq(line, i, f - 1)
                 \o (IF name \in DOMAIN d
                     THEN <<"S", "N", ":">> \o d[name]
                     ELSE SubSeq(line, f, e))
                 \o WithSNFieldsMapped(d, line, e + 1)

\* The start of the first SN-looking substring at or after i, 0 if none.
NextSNLooking(line, i) ==
    IF \E k \in i..Len(line) : SN_TAG_PATTERN(line, k) # 0
    THEN CHOOSE k \in i..Len(line) :
             /\ SN_TAG_PATTERN(line, k) # 0
             /\ \A j \in i..(k - 1) : SN_TAG_PATTERN(line, j) = 0
    ELSE 0

\* res is line[i..] with nothing but its SN fields changed.
RECURSIVE OnlySNFieldsDiffer(_, _, _, _)
OnlySNFieldsDiffer(line, i, res, j) ==
    LET later == {k \in SNFields(line) : k >= i} IN
    IF later = {}
    THEN SubSeq(line, i, Len(line)) = SubSeq(res, j, Len(res))
    ELSE LET f == CHOOSE k \in later : \A m \in later : k <= m
             gap == f - i
         IN  /\ j + gap - 1 <= Len(res)
             /\ SubSeq(line, i, f - 1) = SubSeq(res, j, j + gap - 1)
             /\ \E j2 \in (j + gap)..(Len(res) + 1) :
                    OnlySNFieldsDiffer(line, FieldEnd(line, f) + 1, res, j2)

Remapped == pc \in {"remapped", "restored"}

\* The line of the mapping file that the step just taken has loaded.
LoadedLine == mapping_file.lines[file_pos + 1]

LoadStep == pc = "load" /\ file_pos' = file_pos + 1

-----------------------------------------------------------------------------
(* Properties *)

\* C1: in an @SQ line with an SN field SN:<name> whose name is a key of the
\* table, that field becomes SN:<T[name]> in place (each such field, when the
\* line has several), and the result is otherwise byte-identical to the line.
C1_MappedSNFieldReplacedInPlace ==
    ( /\ Remapped
      /\ HasSQPrefix(header_line)
      /\ \E i \in SNFields(header_line) :
            SNFieldName(header_line, i) \in DOMAIN mapping_dict ) =>
        remapped_line = WithSNFieldsMapped(mapping_dict, header_line, 1)

\* C2: a line that does not begin with @SQ, the empty line and lines holding
\* SN:<key> included, is returned unchanged.
C2_NonSQLineUnchanged ==
    (Remapped /\ ~HasSQPrefix(header_line)) => remapped_line = header_line

C2_Witness ==
    /\ pc = "remapped"
    /\ header_line = HD \o <<TAB>> \o SN \o <<"a">>
    /\ <<"a">> \in DOMAIN mapping_dict
    /\ mapping_dict[<<"a">>] = <<"b">>
    /\ remapped_line = header_line

\* C3: in an @SQ line with several SN-looking substrings only the first is
\* remapped; the text after it is left as in the input.
C3_OnlyFirstSNTagRemapped ==
    LET first == NextSNLooking(header_line, 1)
        e == SN_TAG_PATTERN(header_line, first)
    IN  ( /\ Remapped
          /\ HasSQPrefix(header_line)
          /\ first # 0
          /\ NextSNLooking(header_line, e + 1) # 0 ) =>
            remapped_line =
                SubSeq(header_line, 1, first - 1)
                    \o <<"S", "N", ":">>
                    \o dict_get(mapping_dict,
                                SubSeq(header_line, first + 3, e),
                                SubSeq(header_line, first + 3, e))
                    \o SubSeq(header_line, e + 1, Len(header_line))

\* C4: in an @SQ line only SN fields are modified: every other
\* whitespace-delimited field, also one whose value holds SN:<key> after a
\* punctuation character, and all whitespace are preserved byte for byte.
C4_OnlySNFieldModified ==
    (Remapped /\ HasSQPrefix(header_line)) =>
        OnlySNFieldsDiffer(header_line, 1, remapped_line, 1)

\* C5: loading a blank line, or a line whose first tab-separated field is
\* empty or whitespace-only, adds no entry to the table.
C5_BlankOrEmptyKeyLineAddsNoEntry ==
    [][(LoadStep /\ AllWhitespace(FirstField(LoadedLine)))
          => mapping_dict' = mapping_dict]_vars

\* C6: loading any other line stores the trimmed first field as key and, as
\* value, the trimmed second field when it is present and non-empty after
\* trimming, otherwise the key; so every key and value of the table is
\* non-empty with no leading or trailing whitespace.
C6_StoredKeyAndValueTrimmed ==
    [][(LoadStep /\ ~AllWhitespace(FirstField(LoadedLine))) =>
          LET key == strip(FirstField(LoadedLine))
              second == strip(SecondField(LoadedLine))
              value == IF second # <<>> THEN second ELSE key
          IN  /\ mapping_dict' = dict_set(mapping_dict, key, value)
              /\ \A k \in DOMAIN mapping_dict' :
                    IsTrimmed(k) /\ IsTrimmed(mapping_dict'[k])]_vars

\* C7: one output line per input line consumed, in input order, the i-th the
\* transform of the i-th input line; a run that ends successfully has
\* consumed the whole input (none, for an empty input), and a run with a
\* readable mapping file ends successfully.
C7_OneOutputLinePerInputLineInOrder ==
    /\ Len(stdout) = in_pos
    /\ \A i \in 1..in_pos :
          stdout[i] =
              remap_chromosome_in_line(mapping_dict, rstrip_newline(stdin[i]))
                  \o <<NL>>
    /\ (pc = "exit" /\ exit_code = 0) => in_pos = Len(stdin)
    /\ (pc = "exit" /\ mapping_file.status = "ok") => exit_code = 0

C7_Witness ==
    /\ pc = "exit"
    /\ exit_code = 0
    /\ Len(stdin) = 2
    /\ stdout = << SQ \o <<TAB>> \o SN \o <<"b", NL>>, HD \o <<NL>> >>

\* C8: with a missing or unreadable mapping file the process ends with a
\* non-zero status and a diagnostic on the error stream, having consumed no
\* input line and written no output line; and no input line is read before
\* the mapping file has been read to its end and closed.
C8_MappingFileErrorExitsBeforeInput ==
    /\ (pc = "exit" /\ mapping_file.status # "ok") =>
          /\ exit_code # 0
          /\ stderr # <<>>
          /\ in_pos = 0
          /\ stdout = <<>>
    /\ mapping_file.status # "ok" => pc # "process"
    /\ (pc = "process" \/ in_pos > 0) =>
          /\ file_pos = Len(mapping_file.lines)
          /\ ~file_open

C8_Witness ==
    /\ pc = "exit"
    /\ mapping_file.status = "missing"
    /\ Len(stdin) = 2
    /\ exit_code = 1
    /\ Len(stderr) = 1

\* C9 as stated: for an injective table and any @SQ line, remapping with the
\* table and then with its inverse restores the line's SN value.
C9_RoundTripRestoresSNValue ==
    (pc = "restored" /\ HasSQPrefix(header_line)) =>
        SNValue(restored_line) = SNValue(header_line)

\* C9 amended: for an injective table whose keys and values hold no
\* whitespace, and an @SQ line whose SN name is a key of the table or is not
\* one of its values, remapping with the table and then with its inverse
\* restores the line's SN value.
C9_RoundTripRestoresMappedSNValue ==
    ( /\ pc = "restored"
      /\ HasSQPrefix(header_line)
      /\ SNFields(header_line) # {}
      /\ \A k \in DOMAIN mapping_dict :
            NoWhitespace(k) /\ NoWhitespace(mapping_dict[k])
      /\ \/ SNValue(header_line) \in DOMAIN mapping_dict
         \/ SNValue(header_line) \notin Range(mapping_dict) ) =>
        SNValue(restored_line) = SNValue(header_line)

C9_Witness ==
    /\ pc = "restored"
    /\ header_line = SQ \o <<TAB>> \o SN \o <<"a">>
    /\ mapping_dict = [k \in {<<"a">>} |-> <<"b">>]
    /\ remapped_line = SQ \o <<TAB>> \o SN \o <<"b">>
    /\ restored_line = header_line

\* C10: an @SQ line whose SN field names are not keys of the table is
\* returned exactly as given.
C10_UnmappedSNLineUnchanged ==
    ( /\ Remapped
      /\ HasSQPrefix(header_line)
      /\ SNFields(header_line) # {}
      /\ \A i \in SNFields(header_line) :
            SNFieldName(header_line, i) \notin DOMAIN mapping_dict ) =>
        remapped_line = header_line

====
